---------------------------- MODULE Spec2Model ----------------------------
(*
  State-machine model of src/app.py (FileCombinerApp): the ordered file
  list, the drag-and-drop reorder, the file read with its error handling
  and the combination of the listed files into one output file.

  Python values are modelled as follows.
    - str             a TLA+ string (Len, SubSeq and \o act on characters)
    - None / str      PyNone / PyStr(s), a record, so that None and the
                      empty string stay different values
    - list index      Python indices are 0-based and a negative index counts
                      from the end of the list; TLA+ sequences are 1-based
    - open / read /   their outcome is an input of the step that makes the
      write / close   call: "ok" or the name of the exception it raises

  Files.  fs holds the text of every file a dialog can list.  For the output
  file, `out` is the text combine_files has handed to f.write so far and
  `disk` the text that has reached the file: writes are buffered, so disk is
  a prefix of out, a write or the close moves any part of the buffered text
  to the file, and a write or a close that raises may have moved only part
  of it.  How many characters are on the file after a step is an input of
  the step (n).  When the save location is one of the listed files, disk and
  fs of that path are the same file: open(save_file, "w") empties it and a
  later read_file of it returns what has reached the file by then.

  Two parts of the state are kept only as long as the program can tell them
  apart from their initial value.
    - log_textbox holds the lines appended since the last handler began:
      the widget is append-only and the program never reads it back.
    - the locals of combine_files (save_file, content, the loop position,
      the file object) are dead once combine_files has returned: they take
      their initial value again at the return.
    - how the last combine_files ended and the text of an output file that
      no dialog lists are kept until the next handler begins, and that
      handler starts from their initial value.
*)
EXTENDS Integers, Sequences, FiniteSets, TLC

\* ------------------------------------------------------------------ bounds

MaxLen == 3        \* longest file_list explored
MaxSel == 2        \* most files returned by one "Select Files" dialog
MaxFileLen == 7    \* longest listed file for which a handler is explored
MidCut == 50       \* a number of characters on the output file that falls
                   \* inside the first separator line

\* ------------------------------------------------------------------ inputs

Paths == {"/tmp/a.txt", "/tmp/b.txt"}

\* Text of each file on disk when the window is created.
FileText(path) ==
    CASE path = "/tmp/a.txt" -> "hello"
      [] path = "/tmp/b.txt" -> "foo\nbar"
      [] OTHER               -> ""

\* Save locations the "Save Combined File" dialog returns; "" is a cancel.
\* A save location can be one of the listed files.
SaveFiles == {"", "/out/combined.txt", "/tmp/a.txt"}

\* Values the settings store can hold under "last_directory" when the window
\* is created: nothing stored (the default ""), or the directory an earlier
\* session saved.
StoredDirectories == {"", "/prev/dir"}

\* Exceptions open(file_path, "r") / f.read() can raise.
ReadErrors == {"FileNotFoundError", "PermissionError", "OSError",
               "UnicodeDecodeError"}
ReadOutcomes == {"ok"} \cup ReadErrors

\* Exceptions open(save_file, "w") can raise.
OpenErrors == {"FileNotFoundError", "PermissionError", "OSError"}
OpenOutcomes == {"ok"} \cup OpenErrors

\* Exceptions f.write() and the close at the end of the with block can raise.
WriteErrors == {"OSError"}
WriteOutcomes == {"ok"} \cup WriteErrors

\* ------------------------------------------------------------ Python values

PyNone == [isNone |-> TRUE, str |-> ""]
PyStr(s) == [isNone |-> FALSE, str |-> s]

\* str(e) of the OSError raised for a path that is a directory.
OSErrorText(path) == "[Errno 21] Is a directory: '" \o path \o "'"

\* str(e) of the OSError raised when the device is full.
WriteErrorText == "[Errno 28] No space left on device"

\* Index (1-based) of the last "/" of s, 0 when s has none.
LastSlash(s) ==
    LET I == {i \in 1..Len(s) : SubSeq(s, i, i) = "/"}
    IN  IF I = {} THEN 0 ELSE CHOOSE i \in I : \A j \in I : j <= i

\* s.rsplit("/", 1)[0]
RSplitHead(s) ==
    IF LastSlash(s) = 0 THEN s ELSE SubSeq(s, 1, LastSlash(s) - 1)

\* s.split("/")[-1]
SplitLast(s) == SubSeq(s, LastSlash(s) + 1, Len(s))

\* ------------------------------------------------------------------- state

VARIABLES
    file_list,        \* self.file_list
    file_table,       \* rows of self.file_table: <<filename, path>>
    log_textbox,      \* lines the last handler appended to self.log_textbox
    content_textbox,  \* value last passed to self.content_textbox.setText
    last_directory,   \* self.last_directory
    settings,         \* value stored under "last_directory" in self.settings
    fs,               \* text of each listed file on disk
    reads,            \* outcome and text of each read of the running
                      \* combine_files, or of the last display_file_content
    pc,               \* position of the running combine_files, or "idle"
    idx,              \* 1-based position of the for loop in file_list
    content,          \* local variable content of combine_files
    save_file,        \* local variable save_file of combine_files
    out,              \* text handed to f.write so far
    disk,             \* text that has reached the output file
    pending,          \* exception in flight when the with block is left
    result,           \* how the last combine_files ended
    raised,           \* exception that escaped the last handler, or ""
    last              \* last handler invoked and its inputs

vars == <<file_list, file_table, log_textbox, content_textbox,
          last_directory, settings, fs, reads, pc, idx, content, save_file,
          out, disk, pending, result, raised, last>>

\* The handler that begins, its inputs and the files as it finds them.
LastOp(op, src, sel, tgt, files, save) ==
    [op |-> op, src |-> src, sel |-> sel, tgt |-> tgt, files |-> files,
     save |-> save, fs |-> fs]

\* Handlers are explored while every listed file is at most MaxFileLen long.
FilesInBounds == \A p \in Paths : Len(fs[p]) <= MaxFileLen

\* The first n characters of s.
Prefix(s, n) == SubSeq(s, 1, n)

\* The locals of a combine_files call that has returned are dead.
LocalsDead ==
    /\ idx' = 1
    /\ content' = PyNone
    /\ save_file' = ""
    /\ out' = ""
    /\ pending' = ""

\* A handler begins: what the last combine_files left is observed no longer.
OutcomeForgotten ==
    /\ disk' = ""
    /\ result' = ""

SeqsUpTo(S, n) == UNION {[1..k -> S] : k \in 0..n}

Init ==
    /\ file_list = <<>>
    /\ file_table = <<>>
    /\ log_textbox = <<>>
    /\ content_textbox = PyStr("")
    /\ last_directory \in StoredDirectories
    /\ settings = last_directory
    /\ fs = [p \in Paths |-> FileText(p)]
    /\ reads = <<>>
    /\ pc = "idle"
    /\ idx = 1
    /\ content = PyNone
    /\ save_file = ""
    /\ out = ""
    /\ disk = ""
    /\ pending = ""
    /\ result = ""
    /\ raised = ""
    /\ last = [op |-> "__init__", src |-> FALSE, sel |-> -1, tgt |-> -1,
               files |-> <<>>, save |-> "", fs |-> fs]


\* --------------------------------------------------------------- read_file

\* read_file without its last except clause: an OSError propagates.
ReadFileNoOSError(path, ro) ==
    CASE ro = "ok" ->
            [ret |-> PyStr(fs[path]), log |-> <<>>, raised |-> ""]
      [] ro = "FileNotFoundError" ->
            [ret |-> PyNone, log |-> <<"File not found: " \o path>>,
             raised |-> ""]
      [] ro = "PermissionError" ->
            [ret |-> PyNone, log |-> <<"Permission denied: " \o path>>,
             raised |-> ""]
      [] OTHER ->
            [ret |-> PyNone, log |-> <<>>, raised |-> ro]

\* read_file(file_path), ro being the outcome of opening and reading the
\* file: the value returned (the text on disk when the read succeeds), the
\* lines appended to the log and the exception that propagates ("" when the
\* call returns).
ReadFile(path, ro) ==
    CASE ro = "ok" ->
            [ret |-> PyStr(fs[path]), log |-> <<>>, raised |-> ""]
      [] ro = "FileNotFoundError" ->
            [ret |-> PyNone, log |-> <<"File not found: " \o path>>,
             raised |-> ""]
      [] ro = "PermissionError" ->
            [ret |-> PyNone, log |-> <<"Permission denied: " \o path>>,
             raised |-> ""]
      [] ro = "OSError" ->
            [ret |-> PyNone,
             log |-> <<"Error reading file: " \o OSErrorText(path)>>,
             raised |-> ""]
      [] OTHER ->      \* UnicodeDecodeError is a ValueError: not caught
            [ret |-> PyNone, log |-> <<>>, raised |-> ro]

\* What a handler records of a read: its outcome and the text it returned.
ReadRecord(path, ro) ==
    [outcome |-> ro, text |-> IF ro = "ok" THEN fs[path] ELSE ""]

\* ---------------------------------------------------------- populate_table

\* populate_table(): the rows rebuilt from the file list.
PopulateTable(l) == [i \in 1..Len(l) |-> <<SplitLast(l[i]), l[i]>>]

\* --------------------------------------------------------------- add_files

\* The loop of add_files skipping a path that is already listed.
AppendFilesDedup(l, files) ==
    l \o SelectSeq(files, LAMBDA f : \A i \in 1..Len(l) : l[i] # f)

\* The loop of add_files on the list: every file appended, in order.
AppendFiles(l, files) == l \o files

\* The log lines of the loop of add_files.
AddedLines(files) == [i \in 1..Len(files) |-> "Added file: " \o files[i]]

\* add_files(), for the files the dialog returned.
AddFiles(files) ==
    /\ pc = "idle"
    /\ FilesInBounds
    /\ Len(file_list) + Len(files) <= MaxLen
    /\ last' = LastOp("add_files", FALSE, -1, -1, files, "")
    /\ raised' = ""
    /\ IF files # <<>>
       THEN /\ last_directory' = RSplitHead(files[1])
            /\ settings' = last_directory'
            /\ log_textbox' = AddedLines(files)
            /\ file_list' = AppendFiles(file_list, files)
            /\ file_table' = PopulateTable(file_list')
       ELSE /\ log_textbox' = <<>>
            /\ UNCHANGED <<last_directory, settings, file_list, file_table>>
    /\ reads' = <<>>
    /\ LocalsDead
    /\ OutcomeForgotten
    /\ UNCHANGED <<content_textbox, fs, pc>>

\* ---------------------------------------------------- display_file_content

\* display_file_content(), row being the selected row, -1 for no selection,
\* and ro the outcome of reading the selected file.
DisplayFileContent(row, ro) ==
    /\ pc = "idle"
    /\ FilesInBounds
    /\ last' = LastOp("display_file_content", FALSE, row, -1, <<>>, "")
    /\ IF row >= 0
       THEN LET r == ReadFile(file_table[row + 1][2], ro)
            IN  /\ reads' = <<ReadRecord(file_table[row + 1][2], ro)>>
                /\ log_textbox' = r.log
                /\ raised' = r.raised
                /\ content_textbox' =
                      IF r.raised = "" THEN r.ret ELSE content_textbox
       ELSE /\ raised' = ""
            /\ reads' = <<>>
            /\ log_textbox' = <<>>
            /\ UNCHANGED content_textbox
    /\ LocalsDead
    /\ OutcomeForgotten
    /\ UNCHANGED <<file_list, file_table, last_directory, settings, fs, pc>>

\* --------------------------------------------------------------- dropEvent

\* 1-based position that the Python index i denotes in l.
PyIndex(l, i) == IF i < 0 THEN i + Len(l) + 1 ELSE i + 1

\* l[i] raises no IndexError.
PyIndexValid(l, i) == PyIndex(l, i) \in 1..Len(l)

\* The condition of dropEvent without its test target_row >= 0.
DropGuardNoSign(selected_row, target_row) == target_row # selected_row

\* The condition under which dropEvent swaps.
DropGuard(selected_row, target_row) ==
    target_row >= 0 /\ target_row # selected_row

\* A reorder that removes the selected row and reinserts it at the target.
MoveRow(l, selected_row, target_row) ==
    LET s == PyIndex(l, selected_row)
        t == PyIndex(l, target_row)
        rest == SubSeq(l, 1, s - 1) \o SubSeq(l, s + 1, Len(l))
    IN  SubSeq(rest, 1, t - 1) \o <<l[s]>> \o SubSeq(rest, t, Len(rest))

\* file_list[selected_row], file_list[target_row] =
\*     file_list[target_row], file_list[selected_row]
SwapRows(l, selected_row, target_row) ==
    LET s == PyIndex(l, selected_row)
        t == PyIndex(l, target_row)
        l1 == [l EXCEPT ![s] = l[t]]
    IN  [l1 EXCEPT ![t] = l[s]]

\* dropEvent(event): fromTable is event.source() == self.file_table,
\* selected_row is currentRow(), target_row is indexAt(event.pos()).row();
\* the two rows are not looked up for a drop that comes from elsewhere.
DropEvent(fromTable, selected_row, target_row) ==
    /\ pc = "idle"
    /\ FilesInBounds
    /\ last' = LastOp("dropEvent", fromTable, selected_row, target_row,
                       <<>>, "")
    /\ IF fromTable /\ DropGuard(selected_row, target_row)
       THEN IF /\ PyIndexValid(file_list, selected_row)
               /\ PyIndexValid(file_list, target_row)
            THEN /\ file_list' =
                       SwapRows(file_list, selected_row, target_row)
                 /\ file_table' = PopulateTable(file_list')
                 /\ raised' = ""
            ELSE /\ raised' = "IndexError"
                 /\ UNCHANGED <<file_list, file_table>>
       ELSE /\ raised' = ""
            /\ UNCHANGED <<file_list, file_table>>
    /\ reads' = <<>>
    /\ log_textbox' = <<>>
    /\ LocalsDead
    /\ OutcomeForgotten
    /\ UNCHANGED <<content_textbox, last_directory, settings, fs, pc>>

\* ----------------------------------------------------------- combine_files

\* seperator
Seperator ==
    "************************************************************************\n"

\* f"{seperator}{file_path}\n{seperator}"
Header(file_path) == Seperator \o file_path \o "\n" \o Seperator

\* A write that replaces the text of the file.
WriteOver(o, s) == s

\* The text handed to f so far once f.write(s) is called after o.
WriteTo(o, s) == o \o s

\* The output file save location sf holds text; a listed file that is the
\* save location is that same file.
StoreDisk(sf, text) ==
    /\ disk' = text
    /\ fs' = IF sf \in Paths THEN [fs EXCEPT ![sf] = text] ELSE fs

\* f.write(chunk) with outcome wo, after which n characters are on the file:
\* at least those that were there, at most all that were handed over.
Write(chunk, wo, n) ==
    LET text == WriteTo(out, chunk)
    IN  /\ n \in Len(disk)..Len(text)
        /\ out' = text
        /\ StoreDisk(save_file, Prefix(text, n))
        /\ pending' = IF wo = "ok" THEN pending ELSE wo

\* The log line of the except clause that catches the exception e raised
\* for the output file.
OutputErrorLine(e, dest, text) ==
    CASE e = "FileNotFoundError" -> "Destination file not found: " \o dest
      [] e = "PermissionError" ->
            "Permission denied for destination file: " \o dest
      [] OTHER -> "Error saving combined file: " \o text

\* combine_files() up to the open of the output file: sf is the save
\* location the dialog returned, oo the outcome of open(save_file, "w").
CombineFiles(sf, oo) ==
    /\ pc = "idle"
    /\ FilesInBounds
    /\ last' = LastOp("combine_files", FALSE, -1, -1, <<>>, sf)
    /\ raised' = ""
    /\ pending' = ""
    /\ idx' = 1
    /\ content' = PyNone
    /\ out' = ""
    /\ IF sf = ""
       THEN /\ result' = ""
            /\ log_textbox' = <<>>
            /\ disk' = ""
            /\ save_file' = ""
            /\ UNCHANGED <<last_directory, settings, fs, pc>>
       ELSE /\ last_directory' = RSplitHead(sf)
            /\ settings' = last_directory'
            /\ IF oo = "ok"
               THEN /\ pc' = "for"
                    /\ save_file' = sf
                    /\ result' = ""
                    /\ log_textbox' = <<>>
                    /\ StoreDisk(sf, "")
               ELSE /\ log_textbox' =
                           <<OutputErrorLine(oo, sf, OSErrorText(sf))>>
                    /\ result' = "Aborted"
                    /\ save_file' = ""
                    /\ disk' = ""
                    /\ UNCHANGED <<fs, pc>>
    /\ reads' = <<>>
    /\ UNCHANGED <<file_list, file_table, content_textbox>>

\* content = self.read_file(file_path), for the next file of the loop; ro is
\* the outcome of reading it.
CombineRead(ro) ==
    /\ pc = "for"
    /\ idx <= Len(file_list)
    /\ LET r == ReadFile(file_list[idx], ro)
       IN  /\ reads' = Append(reads, ReadRecord(file_list[idx], ro))
           /\ log_textbox' = log_textbox \o r.log
           /\ IF r.raised = ""
              THEN /\ content' = r.ret
                   /\ pc' = "write_header"
                   /\ UNCHANGED pending
              ELSE /\ pending' = r.raised
                   /\ pc' = "exit"
                   /\ UNCHANGED content
    /\ UNCHANGED <<file_list, file_table, content_textbox, last_directory,
                   settings, fs, idx, save_file, out, disk, result, raised,
                   last>>

\* f.write(f"{seperator}{file_path}\n{seperator}")
CombineWriteHeader(wo, n) ==
    /\ pc = "write_header"
    /\ Write(Header(file_list[idx]), wo, n)
    /\ pc' = IF wo = "ok" THEN "write_content" ELSE "exit"
    /\ UNCHANGED <<file_list, file_table, log_textbox, content_textbox,
                   last_directory, settings, reads, idx, content, save_file,
                   result, raised, last>>

\* f.write(content): write() raises TypeError for an argument that is None,
\* before anything is handed to the file.
CombineWriteContent(wo, n) ==
    /\ pc = "write_content"
    /\ IF content.isNone
       THEN /\ pending' = "TypeError"
            /\ pc' = "exit"
            /\ UNCHANGED <<out, disk, fs>>
       ELSE /\ Write(content.str, wo, n)
            /\ pc' = IF wo = "ok" THEN "write_blank" ELSE "exit"
    /\ UNCHANGED <<file_list, file_table, log_textbox, content_textbox,
                   last_directory, settings, reads, idx, content, save_file,
                   result, raised, last>>

\* f.write("\n\n"), then the loop moves to the next file.
CombineWriteBlank(wo, n) ==
    /\ pc = "write_blank"
    /\ Write("\n\n", wo, n)
    /\ pc' = IF wo = "ok" THEN "for" ELSE "exit"
    /\ idx' = IF wo = "ok" THEN idx + 1 ELSE idx
    /\ UNCHANGED <<file_list, file_table, log_textbox, content_textbox,
                   last_directory, settings, reads, content, save_file,
                   result, raised, last>>

\* The loop is over: self.log_textbox.append("Files combined successfully.")
CombineLogSuccess ==
    /\ pc = "for"
    /\ idx > Len(file_list)
    /\ log_textbox' = Append(log_textbox, "Files combined successfully.")
    /\ pc' = "exit"
    /\ UNCHANGED <<file_list, file_table, content_textbox, last_directory,
                   settings, fs, reads, idx, content, save_file, out, disk,
                   pending, result, raised, last>>

\* The with block is left: the file is closed (co is the outcome of the
\* close, n the number of characters on the file after it), then the
\* statement after the block or an except clause runs, or the exception in
\* flight leaves combine_files, and the locals are dead.  A close that
\* succeeds when no write has failed leaves the whole text on the file.
CombineExit(co, n) ==
    /\ pc = "exit"
    /\ pc' = "idle"
    /\ IF co = "ok" /\ pending \notin WriteErrors
       THEN n = Len(out)
       ELSE n \in Len(disk)..Len(out)
    /\ StoreDisk(save_file, Prefix(out, n))
    /\ LET e == IF co # "ok" THEN co ELSE pending
       IN  CASE e = "" ->
                  /\ log_textbox' = Append(log_textbox,
                         "Combined file saved as: " \o save_file)
                  /\ result' = "Success"
                  /\ raised' = ""
             [] e \in OpenErrors ->
                  /\ log_textbox' = Append(log_textbox,
                         OutputErrorLine(e, save_file, WriteErrorText))
                  /\ result' = "Aborted"
                  /\ raised' = ""
             [] OTHER ->
                  /\ raised' = e
                  /\ UNCHANGED <<log_textbox, result>>
    /\ reads' = <<>>
    /\ LocalsDead
    /\ UNCHANGED <<file_list, file_table, content_textbox, last_directory,
                   settings, last>>

\* ----------------------------------------------------------- specification

\* The argument of the next f.write of the running combine_files.
NextChunk ==
    CASE pc = "write_header" -> Header(file_list[idx])
      [] pc = "write_content" /\ ~content.isNone -> content.str
      [] pc = "write_blank" -> "\n\n"
      [] OTHER -> ""

\* Numbers of characters on the file explored after a write or a close:
\* nothing new, MidCut, all that was handed over before, all of it.
DiskCuts == {Len(disk), MidCut, Len(out), Len(out) + Len(NextChunk)}

Next ==
    \/ \E files \in SeqsUpTo(Paths, MaxSel) : AddFiles(files)
    \/ \E row \in -1..(Len(file_table) - 1), ro \in ReadOutcomes :
         DisplayFileContent(row, ro)
    \/ \E selected_row \in -1..(Len(file_list) - 1),
          target_row \in -1..Len(file_list) :
         DropEvent(TRUE, selected_row, target_row)
    \/ DropEvent(FALSE, -1, -1)
    \/ \E sf \in SaveFiles, oo \in OpenOutcomes : CombineFiles(sf, oo)
    \/ \E ro \in ReadOutcomes : CombineRead(ro)
    \/ \E wo \in WriteOutcomes, n \in DiskCuts : CombineWriteHeader(wo, n)
    \/ \E wo \in WriteOutcomes, n \in DiskCuts : CombineWriteContent(wo, n)
    \/ \E wo \in WriteOutcomes, n \in DiskCuts : CombineWriteBlank(wo, n)
    \/ CombineLogSuccess
    \/ \E co \in WriteOutcomes, n \in DiskCuts : CombineExit(co, n)

Spec == Init /\ [][Next]_vars

\* -------------------------------------------------------------- vocabulary

IsPrefix(a, b) == Len(a) <= Len(b) /\ SubSeq(b, 1, Len(a)) = a

RECURSIVE Repeat(_, _)
Repeat(c, n) ==
    IF n = 0 THEN ""
    ELSE IF n % 2 = 0 THEN LET h == Repeat(c, n \div 2) IN h \o h
    ELSE c \o Repeat(c, n - 1)

\* The separator line of the output format: 72 asterisks and a line break.
SeparatorLine == Repeat("*", 72) \o "\n"

\* One block of the output format: separator line, path line, separator
\* line, content, blank line.
Block(path, text) ==
    SeparatorLine \o path \o "\n" \o SeparatorLine \o text \o "\n\n"

\* The blocks of the first n entries of l, in order, texts[i] being the
\* content section of the i-th.
RECURSIVE BlocksUpTo(_, _, _)
BlocksUpTo(l, texts, n) ==
    IF n = 0 THEN ""
    ELSE BlocksUpTo(l, texts, n - 1) \o Block(l[n], texts[n])

Blocks(l, texts) == BlocksUpTo(l, texts, Len(l))

\* Content sections: what each read of the sequence rd returned, nothing for
\* a read that failed or has not happened.
ReadTexts(l, rd) ==
    [i \in 1..Len(l) |-> IF i <= Len(rd) THEN rd[i].text ELSE ""]

\* Content sections: the text each listed file held in the files f.
FileTexts(l, f) == [i \in 1..Len(l) |-> f[l[i]]]

\* A combine_files call for which a save location was chosen has ended.
CombineDone == last.op = "combine_files" /\ pc = "idle" /\ last.save # ""

\* The step at which a combine_files call that opened its output file
\* returns; the locals it read are those of the state before the step.
CombineReturns == pc = "exit" /\ pc' = "idle"

ValidIndex(l, i) == i \in 0..(Len(l) - 1)

LoggedReadErrors == {"FileNotFoundError", "PermissionError", "OSError"}

IsOutputErrorLine(line, dest) ==
    \/ line = "Destination file not found: " \o dest
    \/ line = "Permission denied for destination file: " \o dest
    \/ line = "Error saving combined file: " \o WriteErrorText
    \/ line = "Error saving combined file: " \o OSErrorText(dest)

\* The text d holds a prefix of the blocks of l with the content sections
\* the reads rd returned, and the complete blocks of the entries before i.
HoldsPassedBlocks(d, l, rd, i) ==
    /\ IsPrefix(d, Blocks(l, ReadTexts(l, rd)))
    /\ IsPrefix(BlocksUpTo(l, ReadTexts(l, rd), i - 1), d)

\* ------------------------------------------------------------------ claims

\* C1 (as claimed): when every listed file was read and the output file was
\* opened, written and closed without error, the output file of a finished
\* combine_files holds exactly one block per entry of file_list, in list
\* order, each with the content the file had when combine_files was called,
\* and nothing for the empty list.
C1_CombineWritesBlocks ==
    [][(/\ CombineReturns
        /\ \A i \in DOMAIN reads : reads[i].outcome = "ok"
        /\ result' # "Aborted")
       => (/\ result' = "Success"
           /\ raised' = ""
           /\ Len(reads) = Len(file_list)
           /\ disk' = Blocks(file_list, FileTexts(file_list, last.fs))
           /\ (file_list = <<>> => disk' = ""))
      ]_vars

\* C2 (as claimed): a source read that fails with a logged error does not
\* stop the combination: the run ends with one block per entry on the output
\* file, the failed entries with an empty content section.
C2_ReadFailureRecovered ==
    [][(/\ CombineReturns
        /\ \A i \in DOMAIN reads : reads[i].outcome # "UnicodeDecodeError"
        /\ result' # "Aborted")
       => (/\ Len(reads) = Len(file_list)
           /\ disk' = Blocks(file_list, ReadTexts(file_list, reads)))
      ]_vars

\* C3 (as claimed): every combine_files call with a save location ends in
\* Success or Aborted, and no exception leaves the handler.
C3_TerminalStates ==
    CombineDone => (result \in {"Success", "Aborted"} /\ raised = "")

\* C4 (as claimed): when the output file fails, exactly one output error
\* line is logged, neither success line is logged, no source file is read
\* after the failure, and no exception leaves the handler.
C4_OutputFailureAborts ==
    [][(/\ last'.op = "combine_files"
        /\ pc' = "idle"
        /\ result' = "Aborted")
       => (/\ Cardinality({i \in DOMAIN log_textbox' :
                  IsOutputErrorLine(log_textbox'[i], last'.save)}) = 1
           /\ \A i \in DOMAIN log_textbox' :
                 /\ log_textbox'[i] # "Files combined successfully."
                 /\ log_textbox'[i] # "Combined file saved as: " \o last'.save
           /\ (CombineReturns => Len(reads) <= idx)
           /\ raised' = "")
      ]_vars

\* C5: a drop from the table with valid rows i # j exchanges the entries at
\* i and j, leaves every other entry where it was, and the same drop applied
\* again restores the order.
C5_MoveIsSwap ==
    [][(/\ last'.op = "dropEvent"
        /\ last'.src
        /\ ValidIndex(file_list, last'.sel)
        /\ ValidIndex(file_list, last'.tgt)
        /\ last'.sel # last'.tgt)
       => LET i == last'.sel + 1
              j == last'.tgt + 1
          IN  /\ Len(file_list') = Len(file_list)
              /\ file_list'[i] = file_list[j]
              /\ file_list'[j] = file_list[i]
              /\ \A k \in 1..Len(file_list) :
                    k \notin {i, j} => file_list'[k] = file_list[k]
              /\ raised' = ""
              /\ DropGuard(last'.sel, last'.tgt)
              /\ SwapRows(file_list', last'.sel, last'.tgt) = file_list
      ]_vars

C5_Witness ==
    /\ last.op = "dropEvent"
    /\ last.src
    /\ last.sel = 0
    /\ last.tgt = 2
    /\ file_list = <<"/tmp/b.txt", "/tmp/b.txt", "/tmp/a.txt">>

\* C6: a drop whose target row is not a row of the list, or is the selected
\* row, leaves file_list unchanged, for every valid selected row.
C6_InvalidTargetNoOp ==
    [][(/\ last'.op = "dropEvent"
        /\ ValidIndex(file_list, last'.sel)
        /\ (~ValidIndex(file_list, last'.tgt) \/ last'.tgt = last'.sel))
       => file_list' = file_list
      ]_vars

C6_Witness ==
    /\ last.op = "dropEvent"
    /\ last.src
    /\ last.sel = 0
    /\ last.tgt = -1
    /\ Len(file_list) = 3

\* C7: add_files appends every selected path at the end, in order: the
\* length grows by the number of paths, the existing entries keep their
\* place, no path is dropped as a duplicate, and no exception is raised.
C7_AppendAtEnd ==
    [][last'.op = "add_files"
       => LET files == last'.files
          IN  /\ Len(file_list') = Len(file_list) + Len(files)
              /\ SubSeq(file_list', 1, Len(file_list)) = file_list
              /\ \A k \in 1..Len(files) :
                    file_list'[Len(file_list) + k] = files[k]
              /\ raised' = ""
      ]_vars

C7_Witness ==
    /\ last.op = "add_files"
    /\ last.files = <<"/tmp/b.txt", "/tmp/a.txt">>
    /\ file_list = <<"/tmp/a.txt", "/tmp/b.txt", "/tmp/a.txt">>

\* C8: a read that fails with FileNotFoundError, PermissionError or another
\* OSError raises nothing, appends exactly one log line and yields None; a
\* read that succeeds appends nothing and yields the text the file holds; in
\* the preview (display_file_content) and in combine_files alike.
C8_ReadFileNeverRaises ==
    [][/\ (last'.op = "display_file_content" /\ last'.sel >= 0)
          => LET ro == reads'[1].outcome
                 path == file_list[last'.sel + 1]
             IN  /\ ro \in LoggedReadErrors
                      => /\ raised' = ""
                         /\ Len(log_textbox') = 1
                         /\ content_textbox' = PyNone
                 /\ ro = "ok"
                      => /\ raised' = ""
                         /\ log_textbox' = <<>>
                         /\ content_textbox' = PyStr(fs[path])
       /\ (pc = "for" /\ Len(reads') = Len(reads) + 1)
          => LET ro == reads'[Len(reads')].outcome
             IN  /\ ro \in LoggedReadErrors
                      => /\ pc' = "write_header"
                         /\ pending' = ""
                         /\ Len(log_textbox') = Len(log_textbox) + 1
                         /\ content' = PyNone
                 /\ ro = "ok"
                      => /\ pc' = "write_header"
                         /\ pending' = ""
                         /\ log_textbox' = log_textbox
                         /\ content' = PyStr(fs[file_list[idx]])
      ]_vars

C8_Witness ==
    /\ last.op = "display_file_content"
    /\ last.sel = 1
    /\ reads = <<[outcome |-> "OSError", text |-> ""]>>
    /\ raised = ""
    /\ content_textbox = PyNone
    /\ log_textbox =
          <<"Error reading file: [Errno 21] Is a directory: '/tmp/b.txt'">>

\* C9 (as claimed): while combine_files runs and when it has stopped, the
\* output file holds a prefix of the blocks of file_list in order, with the
\* complete block of every entry the loop has passed, and no step removes or
\* rewrites text that is on the file.
C9_FileHoldsPassedBlocks ==
    [][/\ pc' # "idle"
          => /\ HoldsPassedBlocks(disk', file_list', reads', idx')
             /\ (pc # "idle" => IsPrefix(disk, disk'))
       /\ CombineReturns
          => /\ HoldsPassedBlocks(disk', file_list, reads, idx)
             /\ IsPrefix(disk, disk')
      ]_vars

\* C9 (amended): while combine_files runs and when it has stopped, the text
\* handed to the writer is a prefix of the blocks of file_list in order,
\* each with the content its read returned, and holds the complete block of
\* every entry the loop has passed; the output file holds a prefix of that
\* text, all of it after a Success; and after the open no step removes or
\* rewrites text that is on the file.
C9_OutputIsPrefix ==
    [][/\ pc' # "idle"
          => /\ HoldsPassedBlocks(out', file_list', reads', idx')
             /\ IsPrefix(disk', out')
             /\ (pc # "idle" => IsPrefix(out, out') /\ IsPrefix(disk, disk'))
       /\ CombineReturns
          => /\ IsPrefix(disk', out)
             /\ IsPrefix(disk, disk')
             /\ (result' = "Success" => disk' = out)
      ]_vars

\* A write of the content of the second of three files has failed when
\* MidCut characters had reached the file.
C9_Witness ==
    /\ pc = "exit"
    /\ pending = "OSError"
    /\ idx = 2
    /\ Len(file_list) = 3
    /\ Len(disk) = MidCut
    /\ out = Block(file_list[1], reads[1].text)
                \o Header(file_list[2]) \o reads[2].text
    /\ reads[1].text # ""
    /\ reads[2].text # ""

\* C10 (as claimed): dropEvent changes file_list only when the selected row
\* and the target row are both rows of the list; with no current row
\* (currentRow() = -1) and a valid target row the list is unchanged.
C10_NoCurrentRowNoOp ==
    [][last'.op = "dropEvent"
       => /\ (file_list' # file_list
                => /\ ValidIndex(file_list, last'.sel)
                   /\ ValidIndex(file_list, last'.tgt))
          /\ ((last'.sel = -1 /\ ValidIndex(file_list, last'.tgt))
                => file_list' = file_list)
      ]_vars

=============================================================================
